---- MODULE Spec2Model ----
(***************************************************************************)
(* tail-lookup: FAA aircraft registration lookup.                          *)
(*                                                                         *)
(* Text that the program inspects character by character (tail numbers,    *)
(* the numeric columns, the engine code) is a sequence of one-character    *)
(* strings; text it only copies or compares is a string.  A nullable SQL   *)
(* value or Optional field is NULL (the empty tuple) or Val(x) = <<x>>.     *)
(***************************************************************************)
EXTENDS Integers, Sequences, FiniteSets, TLC

VARIABLES
    \* normalize_tail applied once and twice to an input
    tail, once, twice, npc,
    \* the serving process: the store behind db, the request being handled
    \* and its response, and the number of db.lookup calls it made
    store, spc, request, response, lookups,
    \* the build pipeline (update_faa_data.py): the parsed input, the
    \* download loop, the file at output_path (dest; dest0 is what it held
    \* when the run began) and the open connection's uncommitted work
    master_rows, acftref_rows, archive, bpc, attempt, requests, last_error,
    offset, data, sleeps, dest, dest0, pending, exit_status, failure

normVars  == <<tail, once, twice, npc>>
serveVars == <<store, spc, request, response, lookups>>
buildVars == <<master_rows, acftref_rows, archive, bpc, attempt, requests,
               last_error, offset, data, sleeps, dest, dest0, pending,
               exit_status, failure>>
vars == <<normVars, serveVars, buildVars>>

-----------------------------------------------------------------------------
(* Bounds *)

MaxLen == 3          \* longest input string given to normalize_tail
MaxMasterRows == 2   \* most rows parsed from the MASTER entry
MaxRefRows == 1      \* most rows parsed from the ACFTREF entry
MaxReq == 2          \* longest bulk request drawn item by item
ArchiveChunks == 2   \* chunks the remote archive is served in

NULL == <<>>
Val(x) == <<x>>

-----------------------------------------------------------------------------
(* Text *)

Chars == {"N", "n", "1", "s", "-", " ", "\t"}

LowerLetters == <<"a", "b", "c", "d", "e", "f", "g", "h", "i", "j", "k", "l", "m",
                  "n", "o", "p", "q", "r", "s", "t", "u", "v", "w", "x", "y", "z">>
UpperLetters == <<"A", "B", "C", "D", "E", "F", "G", "H", "I", "J", "K", "L", "M",
                  "N", "O", "P", "Q", "R", "S", "T", "U", "V", "W", "X", "Y", "Z">>

\* str.upper(), one character
UpperChar(c) ==
    IF \E i \in 1..Len(LowerLetters) : LowerLetters[i] = c
    THEN UpperLetters[CHOOSE i \in 1..Len(LowerLetters) : LowerLetters[i] = c]
    ELSE c

Upper(s) == [i \in 1..Len(s) |-> UpperChar(s[i])]

\* the characters str.strip() removes
IsSpace(c) == c \in {" ", "\t", "\n"}

RECURSIVE LStrip(_)
LStrip(s) == IF s # <<>> /\ IsSpace(Head(s)) THEN LStrip(Tail(s)) ELSE s

RECURSIVE RStrip(_)
RStrip(s) ==
    IF s # <<>> /\ IsSpace(s[Len(s)]) THEN RStrip(SubSeq(s, 1, Len(s) - 1)) ELSE s

Strip(s) == RStrip(LStrip(s))

\* str.replace(c, "")
RECURSIVE Remove(_, _)
Remove(s, c) ==
    IF s = <<>> THEN <<>>
    ELSE IF Head(s) = c THEN Remove(Tail(s), c)
    ELSE <<Head(s)>> \o Remove(Tail(s), c)

StartsWith(s, c) == s # <<>> /\ Head(s) = c

normalize_tail(x) ==
    LET t == Strip(Upper(x))
        u == IF StartsWith(t, "N") THEN Tail(t) ELSE t
    IN  Remove(Remove(u, "-"), " ")

RECURSIVE StringsUpTo(_)
StringsUpTo(n) ==
    IF n = 0 THEN {<<>>}
    ELSE LET shorter == StringsUpTo(n - 1)
         IN  shorter \cup {Append(s, c) : s \in {t \in shorter : Len(t) = n - 1}, c \in Chars}

-----------------------------------------------------------------------------
(* The store: update_faa_data.py writes it, database.py reads it *)

\* dict.get(col, default) on a parsed row: a column missing from the file's
\* header is missing from every row's dict
Get(row, col, default) == IF col \in DOMAIN row THEN row[col] ELSE default

\* the tuples inserted into acftref, in input order
acftref_data(rows) ==
    LET keep == SelectSeq(rows, LAMBDA row : Get(row, "CODE", "") # "")
    IN  [i \in 1..Len(keep) |->
            [code     |-> Get(keep[i], "CODE", ""),
             mfr      |-> Get(keep[i], "MFR", ""),
             model    |-> Get(keep[i], "MODEL", ""),
             series   |-> "",
             no_eng   |-> Get(keep[i], "NO-ENG", <<>>),
             no_seats |-> Get(keep[i], "NO-SEATS", <<>>)]]

\* s[:1]
FirstChar(s) == IF s = <<>> THEN <<>> ELSE <<Head(s)>>

\* x or y, on text
OrText(x, y) == IF x # <<>> THEN x ELSE y

\* the tuples inserted into master, in input order
master_data(rows) ==
    LET keep == SelectSeq(rows, LAMBDA row : Get(row, "N-NUMBER", <<>>) # <<>>)
    IN  [i \in 1..Len(keep) |->
            [n_number      |-> Get(keep[i], "N-NUMBER", <<>>),
             mfr_mdl_code  |-> Get(keep[i], "MFR MDL CODE", ""),
             type_aircraft |-> Get(keep[i], "TYPE AIRCRAFT", ""),
             type_engine   |-> Get(keep[i], "TYPE ENGINE", ""),
             no_eng        |-> OrText(Get(keep[i], "NO-ENG", <<>>),
                                      FirstChar(Get(keep[i], "ENG MFR MDL", <<>>))),
             no_seats      |-> Get(keep[i], "NO-SEATS", <<>>),
             year_mfr      |-> Get(keep[i], "YEAR MFR", <<>>)]]

\* executemany("INSERT OR IGNORE ..."): a row whose primary key is already in
\* the table is skipped
RECURSIVE InsertOrIgnore(_, _, _)
InsertOrIgnore(table, rows, key) ==
    IF rows = <<>> THEN table
    ELSE LET r == Head(rows)
             present == \E i \in 1..Len(table) : table[i][key] = r[key]
         IN  InsertOrIgnore(IF present THEN table ELSE Append(table, r), Tail(rows), key)

NoFile == [exists |-> FALSE, tables |-> {}, master |-> <<>>, acftref |-> <<>>,
           metadata |-> <<>>, index |-> FALSE]

EmptyFile == [NoFile EXCEPT !.exists = TRUE]

AllTables == {"master", "acftref", "metadata"}

\* the store a complete run of build_database commits
BuiltStore(mrows, arows, now) ==
    [exists   |-> TRUE,
     tables   |-> AllTables,
     master   |-> InsertOrIgnore(<<>>, master_data(mrows), "n_number"),
     acftref  |-> InsertOrIgnore(<<>>, acftref_data(arows), "code"),
     metadata |-> <<[key |-> "last_updated", value |-> now]>>,
     index    |-> TRUE]

-----------------------------------------------------------------------------
(* database.py *)

AIRCRAFT_TYPES ==
    [c \in {"1", "2", "3", "4", "5", "6", "7", "8", "9", "H", "O"} |->
        CASE c = "1" -> "Glider"
          [] c = "2" -> "Balloon"
          [] c = "3" -> "Blimp/Dirigible"
          [] c = "4" -> "Fixed Wing Single-Engine"
          [] c = "5" -> "Fixed Wing Multi-Engine"
          [] c = "6" -> "Rotorcraft"
          [] c = "7" -> "Weight-Shift-Control"
          [] c = "8" -> "Powered Parachute"
          [] c = "9" -> "Gyroplane"
          [] c = "H" -> "Hybrid Lift"
          [] c = "O" -> "Other"]

ENGINE_TYPES ==
    [c \in {"0", "1", "2", "3", "4", "5", "6", "7", "8", "9", "10", "11"} |->
        CASE c = "0" -> "None"
          [] c = "1" -> "Reciprocating"
          [] c = "2" -> "Turbo-Prop"
          [] c = "3" -> "Turbo-Shaft"
          [] c = "4" -> "Turbo-Jet"
          [] c = "5" -> "Turbo-Fan"
          [] c = "6" -> "Ramjet"
          [] c = "7" -> "2-Cycle"
          [] c = "8" -> "4-Cycle"
          [] c = "9" -> "Unknown"
          [] c = "10" -> "Electric"
          [] c = "11" -> "Rotary"]

\* dict.get(key, default)
DictGet(d, k, default) == IF k \in DOMAIN d THEN d[k] ELSE default

Digits == {"0", "1", "2", "3", "4", "5", "6", "7", "8", "9"}

DigitValue(c) ==
    CASE c = "0" -> 0 [] c = "1" -> 1 [] c = "2" -> 2 [] c = "3" -> 3 [] c = "4" -> 4
      [] c = "5" -> 5 [] c = "6" -> 6 [] c = "7" -> 7 [] c = "8" -> 8 [] c = "9" -> 9

RECURSIVE DecimalValue(_)
DecimalValue(s) ==
    IF s = <<>> THEN 0
    ELSE 10 * DecimalValue(SubSeq(s, 1, Len(s) - 1)) + DigitValue(s[Len(s)])

\* int(text): the value of a string of decimal digits, ValueError for any
\* other text (the parser has already stripped surrounding blanks)
PyInt(s) ==
    IF s # <<>> /\ \A i \in 1..Len(s) : s[i] \in Digits
    THEN [raised |-> FALSE, value |-> DecimalValue(s)]
    ELSE [raised |-> TRUE, value |-> 0]

\* int(v) if v else None, on a nullable text column
IntOrNone(v) ==
    IF v = NULL \/ v[1] = <<>> THEN [raised |-> FALSE, value |-> NULL]
    ELSE LET n == PyInt(v[1])
         IN  IF n.raised THEN [raised |-> TRUE, value |-> NULL]
             ELSE [raised |-> FALSE, value |-> Val(n.value)]

\* the arguments of COALESCE in the other order
CoalesceSecondFirst(a, b) == IF b # NULL THEN b ELSE a

\* SQL COALESCE(a, b)
Coalesce(a, b) == IF a # NULL THEN a ELSE b

\* v or default, on a nullable string column
OrDefault(v, default) == IF v # NULL /\ v[1] # "" THEN v[1] ELSE default

\* v or None, on a nullable string column
OrNone(v) == IF v # NULL /\ v[1] # "" THEN v ELSE NULL

\* the joined rows of: master m LEFT JOIN acftref a ON m.mfr_mdl_code = a.code
\* WHERE m.n_number = ?
JoinedRows(db, n_number) ==
    LET ms == SelectSeq(db.master, LAMBDA m : m.n_number = n_number)
        Join(m) ==
            LET as == SelectSeq(db.acftref, LAMBDA a : a.code = m.mfr_mdl_code)
                hit == as # <<>>
                a == IF hit THEN as[1] ELSE [code |-> "", mfr |-> "", model |-> "",
                        series |-> "", no_eng |-> <<>>, no_seats |-> <<>>]
            IN  [n_number      |-> Val(m.n_number),
                 mfr_mdl_code  |-> Val(m.mfr_mdl_code),
                 type_aircraft |-> Val(m.type_aircraft),
                 type_engine   |-> Val(m.type_engine),
                 no_eng        |-> Coalesce(IF hit THEN Val(a.no_eng) ELSE NULL, Val(m.no_eng)),
                 no_seats      |-> Coalesce(IF hit THEN Val(a.no_seats) ELSE NULL, Val(m.no_seats)),
                 year_mfr      |-> Val(m.year_mfr),
                 manufacturer  |-> IF hit THEN Val(a.mfr) ELSE NULL,
                 model         |-> IF hit THEN Val(a.model) ELSE NULL,
                 series        |-> IF hit THEN Val(a.series) ELSE NULL]
    IN  [i \in 1..Len(ms) |-> Join(ms[i])]

\* Database.lookup: "none" is None, "raise" is an exception leaving the call
lookup(db, n_number) ==
    IF ~ {"master", "acftref"} \subseteq db.tables
    THEN [kind |-> "raise", error |-> "OperationalError"]
    ELSE LET rows == JoinedRows(db, n_number)
         IN  IF rows = <<>> THEN [kind |-> "none"]
             ELSE LET row == rows[1]
                      eng   == IntOrNone(row.no_eng)
                      seats == IntOrNone(row.no_seats)
                      year  == IntOrNone(row.year_mfr)
                  IN  IF eng.raised \/ seats.raised \/ year.raised
                      THEN [kind |-> "raise", error |-> "ValueError"]
                      ELSE [kind |-> "ok",
                            aircraft |->
                              [tail_number   |-> <<"N">> \o row.n_number[1],
                               manufacturer  |-> OrDefault(row.manufacturer, "Unknown"),
                               model         |-> OrDefault(row.model, "Unknown"),
                               series        |-> OrNone(row.series),
                               aircraft_type |-> DictGet(AIRCRAFT_TYPES, row.type_aircraft[1], "Unknown"),
                               engine_type   |-> DictGet(ENGINE_TYPES, row.type_engine[1], "Unknown"),
                               num_engines   |-> eng.value,
                               num_seats     |-> seats.value,
                               year_mfr      |-> year.value]]

\* Database.get_stats
get_stats(db) ==
    IF ~ {"master", "metadata"} \subseteq db.tables
    THEN [kind |-> "raise", error |-> "OperationalError"]
    ELSE LET rows == SelectSeq(db.metadata, LAMBDA r : r.key = "last_updated")
         IN  [kind |-> "ok",
              stats |-> [record_count |-> Len(db.master),
                         last_updated |-> IF rows # <<>> THEN Val(rows[1].value) ELSE NULL]]


-----------------------------------------------------------------------------
(* main.py *)

MaxTailNumbers == 50     \* BulkRequest.tail_numbers: Field(max_length=50)
BulkHandlerLimit == 50   \* bulk_lookup: len(request.tail_numbers) > 50

\* request validation of BulkRequest, before the handler is called
BulkRequestValid(tail_numbers) == Len(tail_numbers) <= MaxTailNumbers

\* get_aircraft: the HTTP status, the body, and the db.lookup calls made
get_aircraft(db, t) ==
    LET normalized == normalize_tail(t)
    IN  IF normalized = <<>>
        THEN [status |-> 400, body |-> "Invalid tail number", lookups |-> 0]
        ELSE LET found == lookup(db, normalized)
             IN  CASE found.kind = "raise" ->
                        [status |-> 500, body |-> found.error, lookups |-> 1]
                   [] found.kind = "none" ->
                        [status |-> 404, body |-> "not found", lookups |-> 1]
                   [] OTHER ->
                        [status |-> 200, body |-> found.aircraft, lookups |-> 1]

BulkError(tail_number, error) ==
    [tail_number |-> tail_number, manufacturer |-> NULL, model |-> NULL,
     series |-> NULL, aircraft_type |-> NULL, engine_type |-> NULL,
     num_engines |-> NULL, num_seats |-> NULL, year_mfr |-> NULL,
     error |-> Val(error)]

BulkFound(aircraft) ==
    [tail_number   |-> aircraft.tail_number,
     manufacturer  |-> Val(aircraft.manufacturer),
     model         |-> Val(aircraft.model),
     series        |-> aircraft.series,
     aircraft_type |-> Val(aircraft.aircraft_type),
     engine_type   |-> Val(aircraft.engine_type),
     num_engines   |-> aircraft.num_engines,
     num_seats     |-> aircraft.num_seats,
     year_mfr      |-> aircraft.year_mfr,
     error         |-> NULL]

\* one pass of the for loop of bulk_lookup: the item appended, or the
\* exception db.lookup raised, and the db.lookup calls made
BulkPass(db, t) ==
    LET normalized == normalize_tail(t)
    IN  IF normalized = <<>>
        THEN [kind |-> "invalid", lookups |-> 0,
              item |-> BulkError(Upper(t), "Invalid tail number")]
        ELSE LET aircraft == lookup(db, normalized)
             IN  CASE aircraft.kind = "raise" ->
                        [kind |-> "raise", lookups |-> 1, item |-> NULL]
                   [] aircraft.kind = "ok" ->
                        [kind |-> "found", lookups |-> 1, item |-> BulkFound(aircraft.aircraft)]
                   [] OTHER ->
                        [kind |-> "not_found", lookups |-> 1,
                         item |-> BulkError(<<"N">> \o normalized, "Not found")]

\* what the for loop of bulk_lookup leaves behind, given the outcome each of
\* its passes would have: the loop runs them in input order up to and including
\* the first in which db.lookup raises, which leaves the loop and the handler
BulkCollect(pass) ==
    LET raising == {i \in 1..Len(pass) : pass[i].kind = "raise"}
        last == IF raising = {} THEN Len(pass)
                ELSE CHOOSE i \in raising : \A j \in raising : i <= j
        kept == IF raising = {} THEN last ELSE last - 1
    IN  [raised  |-> raising # {},
         results |-> [i \in 1..kept |-> pass[i].item],
         found   |-> Cardinality({i \in 1..kept : pass[i].kind = "found"}),
         lookups |-> Cardinality({i \in 1..last : pass[i].lookups = 1})]

\* the for loop of bulk_lookup over request.tail_numbers
BulkLoop(db, tails) ==
    BulkCollect([i \in 1..Len(tails) |-> BulkPass(db, tails[i])])

\* bulk_lookup with no size limit at either place
bulk_lookup_unbounded(db, tail_numbers) ==
    LET out == BulkLoop(db, tail_numbers)
    IN  IF out.raised
        THEN [status |-> 500, body |-> "Internal Server Error", lookups |-> out.lookups]
        ELSE [status |-> 200,
              body |-> [total |-> Len(tail_numbers), found |-> out.found,
                        results |-> out.results],
              lookups |-> out.lookups]

\* bulk_lookup behind its request validation: the HTTP status, the body, and
\* the db.lookup calls made
bulk_lookup(db, tail_numbers) ==
    IF ~ BulkRequestValid(tail_numbers)
    THEN [status |-> 422, body |-> "validation error", lookups |-> 0]
    ELSE IF Len(tail_numbers) > BulkHandlerLimit
    THEN [status |-> 400, body |-> "Maximum 50 tail numbers per request", lookups |-> 0]
    ELSE LET out == BulkLoop(db, tail_numbers)
         IN  IF out.raised
             THEN [status |-> 500, body |-> "Internal Server Error", lookups |-> out.lookups]
             ELSE [status |-> 200,
                   body |-> [total |-> Len(tail_numbers), found |-> out.found,
                             results |-> out.results],
                   lookups |-> out.lookups]

\* health
health(db) ==
    LET s == get_stats(db)
    IN  IF s.kind = "raise"
        THEN [status |-> 500, body |-> s.error, lookups |-> 0]
        ELSE [status |-> 200,
              body |-> [status |-> IF s.stats.record_count > 0 THEN "healthy" ELSE "degraded",
                        database_exists |-> db.exists,
                        record_count |-> s.stats.record_count,
                        last_updated |-> s.stats.last_updated],
              lookups |-> 0]

\* stats
stats(db) ==
    LET s == get_stats(db)
    IN  IF s.kind = "raise"
        THEN [status |-> 500, body |-> s.error, lookups |-> 0]
        ELSE [status |-> 200, body |-> s.stats, lookups |-> 0]


-----------------------------------------------------------------------------
(* Inputs *)

RECURSIVE SeqsUpTo(_, _)
SeqsUpTo(S, n) ==
    IF n = 0 THEN {<<>>}
    ELSE LET shorter == SeqsUpTo(S, n - 1)
         IN  shorter \cup {Append(q, x) : q \in {t \in shorter : Len(t) = n - 1}, x \in S}

K172SP == <<"1", "7", "2", "S", "P">>
K1     == <<"1">>

\* rows of the MASTER entry as parse_csv returns them; the FAA file has no
\* NO-ENG or NO-SEATS column, older or other files may
MasterRowSet ==
    { ( "N-NUMBER" :> K172SP @@ "MFR MDL CODE" :> "C1" @@ "TYPE AIRCRAFT" :> "4" @@
        "TYPE ENGINE" :> "1" @@ "ENG MFR MDL" :> <<"1", "7", "0", "0", "3">> @@
        "YEAR MFR" :> <<"2", "0", "0", "1">> ),
      ( "N-NUMBER" :> K172SP @@ "MFR MDL CODE" :> "C1" @@ "TYPE AIRCRAFT" :> "5" @@
        "TYPE ENGINE" :> "10" @@ "ENG MFR MDL" :> <<>> @@ "YEAR MFR" :> <<>> @@
        "NO-ENG" :> <<"2">> @@ "NO-SEATS" :> <<"0">> ),
      ( "N-NUMBER" :> K172SP @@ "MFR MDL CODE" :> "C2" @@ "TYPE AIRCRAFT" :> "Z" @@
        "TYPE ENGINE" :> "" @@ "ENG MFR MDL" :> <<>> @@ "YEAR MFR" :> <<"0">> @@
        "NO-ENG" :> <<>> @@ "NO-SEATS" :> <<>> ),
      ( "N-NUMBER" :> K172SP @@ "MFR MDL CODE" :> "C2" @@ "TYPE AIRCRAFT" :> "6" @@
        "TYPE ENGINE" :> "3" @@ "ENG MFR MDL" :> <<>> @@ "YEAR MFR" :> <<"1", "9", "9", "0">> @@
        "NO-ENG" :> <<"a", "b", "c">> @@ "NO-SEATS" :> <<"4">> ),
      ( "N-NUMBER" :> K172SP @@ "MFR MDL CODE" :> "C1" @@ "TYPE AIRCRAFT" :> "4" @@
        "TYPE ENGINE" :> "1" @@ "ENG MFR MDL" :> <<>> @@ "YEAR MFR" :> <<"a", "b", "c">> @@
        "NO-ENG" :> <<"0">> @@ "NO-SEATS" :> <<"4">> ),
      ( "N-NUMBER" :> K1 @@ "MFR MDL CODE" :> "C1" @@ "TYPE AIRCRAFT" :> "1" @@
        "TYPE ENGINE" :> "0" @@ "ENG MFR MDL" :> <<>> @@ "YEAR MFR" :> <<>> @@
        "NO-ENG" :> <<"0">> @@ "NO-SEATS" :> <<"1">> ),
      ( "N-NUMBER" :> <<>> @@ "MFR MDL CODE" :> "C1" @@ "TYPE AIRCRAFT" :> "4" @@
        "TYPE ENGINE" :> "1" @@ "ENG MFR MDL" :> <<>> @@ "YEAR MFR" :> <<>> ) }

\* rows of the ACFTREF entry as parse_csv returns them
RefRowSet ==
    { ( "CODE" :> "C1" @@ "MFR" :> "CESSNA" @@ "MODEL" :> "172S" @@
        "NO-ENG" :> <<"1">> @@ "NO-SEATS" :> <<"4">> ),
      ( "CODE" :> "C1" @@ "MFR" :> "" @@ "MODEL" :> "" @@
        "NO-ENG" :> <<>> @@ "NO-SEATS" :> <<>> ),
      ( "CODE" :> "C1" @@ "MFR" :> "PIPER" @@ "MODEL" :> "PA-28" @@
        "NO-ENG" :> <<"0">> @@ "NO-SEATS" :> <<"a", "b", "c">> ),
      ( "CODE" :> "" @@ "MFR" :> "BOEING" @@ "MODEL" :> "737" @@
        "NO-ENG" :> <<"2">> @@ "NO-SEATS" :> <<"9">> ) }

MasterRowSeqs == SeqsUpTo(MasterRowSet, MaxMasterRows)
RefRowSeqs    == SeqsUpTo(RefRowSet, MaxRefRows)

\* raw identifiers a caller sends
RawTails ==
    { <<"N", "1", "7", "2", "S", "P">>,
      <<"N", "-", "B", "A", "D", "!">>,
      <<"N", "0", "0", "0", "0", "0">>,
      <<"n", "-", "1", "7", "2", "s", "p">>,
      <<"N", "1">>,
      <<"N">> }

ExampleRequest ==
    << <<"N", "1", "7", "2", "S", "P">>, <<"N", "-", "B", "A", "D", "!">>,
       <<"N", "0", "0", "0", "0", "0">> >>

\* bulk requests: short ones item by item, the example, and requests at and
\* just above the size limit
Requests ==
    SeqsUpTo(RawTails, MaxReq) \cup {ExampleRequest}
        \cup {[i \in 1..n |-> t] : n \in {MaxTailNumbers, MaxTailNumbers + 1}, t \in RawTails}

-----------------------------------------------------------------------------
(* The serving process *)

NoRequest  == [op |-> "none", arg |-> <<>>]
NoResponse == [status |-> 0, body |-> <<>>]

Finish(op, arg, out) ==
    /\ spc' = "responded"
    /\ request' = [op |-> op, arg |-> arg]
    /\ response' = [status |-> out.status, body |-> out.body]
    /\ lookups' = out.lookups
    /\ UNCHANGED <<store, normVars, buildVars>>

\* GET /api/v1/aircraft/{tail}
GetAircraft ==
    /\ spc = "idle"
    /\ \E t \in RawTails : Finish("single", t, get_aircraft(store, t))

\* POST /api/v1/aircraft/bulk
BulkLookup ==
    /\ spc = "idle"
    /\ \E req \in Requests : Finish("bulk", req, bulk_lookup(store, req))

\* GET /api/v1/health
Health ==
    /\ spc = "idle"
    /\ Finish("health", <<>>, health(store))

\* GET /api/v1/stats
Stats ==
    /\ spc = "idle"
    /\ Finish("stats", <<>>, stats(store))

\* the response is sent and the process waits for the next request
Respond ==
    /\ spc = "responded"
    /\ spc' = "idle"
    /\ request' = NoRequest
    /\ response' = NoResponse
    /\ lookups' = 0
    /\ UNCHANGED <<store, normVars, buildVars>>

-----------------------------------------------------------------------------
(* normalize_tail applied to its own result *)

Normalize ==
    /\ npc = "start"
    /\ once' = normalize_tail(tail)
    /\ npc' = "once"
    /\ UNCHANGED <<tail, twice, serveVars, buildVars>>

NormalizeAgain ==
    /\ npc = "once"
    /\ twice' = normalize_tail(once)
    /\ npc' = "twice"
    /\ UNCHANGED <<tail, once, serveVars, buildVars>>


-----------------------------------------------------------------------------
(* update_faa_data.py *)

max_retries == 3

\* sub in s
Contains(s, sub) ==
    \E i \in 1..(Len(s) - Len(sub) + 1) : SubSeq(s, i, i + Len(sub) - 1) = sub

\* next((f for f in files if word in f.upper()), None)
FindEntry(files, word) ==
    LET hits == SelectSeq(files, LAMBDA f : Contains(Upper(f), word))
    IN  IF hits = <<>> THEN NULL ELSE Val(hits[1])

MASTER  == <<"M", "A", "S", "T", "E", "R">>
ACFTREF == <<"A", "C", "F", "T", "R", "E", "F">>

\* namelist() of the archives the server may send
Listings ==
    { << <<"D", "E", "R", "E", "G", ".", "t", "x", "t">>,
         <<"m", "a", "s", "t", "e", "r", ".", "t", "x", "t">>,
         <<"A", "C", "F", "T", "R", "E", "F", ".", "t", "x", "t">> >>,
      << <<"A", "C", "F", "T", "R", "E", "F", ".", "t", "x", "t">> >>,
      << <<"M", "A", "S", "T", "E", "R", ".", "t", "x", "t">>,
         <<"D", "E", "R", "E", "G", ".", "t", "x", "t">> >>,
      << >> }

\* the rows the entries of an archive parse to
FileMasterRows ==
    {r \in MasterRowSet :
        /\ Get(r, "MFR MDL CODE", "") = "C1"
        /\ Get(r, "YEAR MFR", <<>>) \in {<<>>, <<"2", "0", "0", "1">>}}
FileRefRows == {r \in RefRowSet : Get(r, "MFR", "") \in {"CESSNA", "BOEING"}}

\* the store an earlier run left at output_path
OldStore ==
    BuiltStore(<< CHOOSE r \in MasterRowSet : Get(r, "TYPE ENGINE", "") = "10" >>,
               << CHOOSE r \in RefRowSet : Get(r, "MFR", "") = "CESSNA" >>, "t0")

NoPending == [acftref |-> <<>>, master |-> <<>>, metadata |-> <<>>, index |-> FALSE]

\* the process ends on an uncaught exception or sys.exit(1); an open
\* connection is closed without a commit
Abort(why) ==
    /\ bpc' = "aborted"
    /\ exit_status' = 1
    /\ failure' = why
    /\ pending' = NoPending

\* the except clause with the bound tested one attempt late
HandleRequestExceptionLate(kind) ==
    /\ last_error' = kind
    /\ IF attempt <= max_retries
       THEN /\ sleeps' = Append(sleeps, attempt * 10)
            /\ attempt' = attempt + 1
            /\ bpc' = "request"
            /\ UNCHANGED <<exit_status, failure, pending>>
       ELSE /\ Abort("download")
            /\ UNCHANGED <<sleeps, attempt>>

\* the except clause of download_faa_data
HandleRequestException(kind) ==
    /\ last_error' = kind
    /\ IF attempt < max_retries
       THEN /\ sleeps' = Append(sleeps, attempt * 10)
            /\ attempt' = attempt + 1
            /\ bpc' = "request"
            /\ UNCHANGED <<exit_status, failure, pending>>
       ELSE /\ Abort("download")
            /\ UNCHANGED <<sleeps, attempt>>

\* requests.get(...) and raise_for_status() succeed; data = bytearray()
GetResponds ==
    /\ bpc = "request"
    /\ requests' = requests + 1
    /\ offset' = 0
    /\ data' = 0
    /\ bpc' = "transfer"
    /\ UNCHANGED <<master_rows, acftref_rows, archive, attempt, last_error, sleeps,
                   dest, dest0, pending, exit_status, failure, normVars, serveVars>>

\* requests.get(...) times out or cannot connect, or raise_for_status() raises
GetFails ==
    /\ bpc = "request"
    /\ requests' = requests + 1
    /\ \E kind \in {"timeout", "connection", "http_status"} : HandleRequestException(kind)
    /\ UNCHANGED <<master_rows, acftref_rows, archive, offset, data,
                   dest, dest0, normVars, serveVars>>

\* one chunk of iter_content
ReceiveChunk ==
    /\ bpc = "transfer"
    /\ offset < ArchiveChunks
    /\ offset' = offset + 1
    /\ data' = data + 1
    /\ UNCHANGED <<master_rows, acftref_rows, archive, bpc, attempt, requests, last_error,
                   sleeps, dest, dest0, pending, exit_status, failure, normVars, serveVars>>

\* iter_content raises in the middle of the transfer
TransferFails ==
    /\ bpc = "transfer"
    /\ \E kind \in {"timeout", "connection"} : HandleRequestException(kind)
    /\ UNCHANGED <<master_rows, acftref_rows, archive, requests, offset, data,
                   dest, dest0, normVars, serveVars>>

\* the transfer is complete: return zipfile.ZipFile(io.BytesIO(data)), or
\* BadZipFile, which the except clause does not catch
TransferEnds ==
    /\ bpc = "transfer"
    /\ offset = ArchiveChunks
    /\ \/ /\ \E files \in Listings : archive' = files
          /\ bpc' = "find"
          /\ last_error' = "none"
          /\ UNCHANGED <<exit_status, failure, pending>>
       \/ /\ Abort("bad_zip")
          /\ UNCHANGED <<archive, last_error>>
    /\ UNCHANGED <<master_rows, acftref_rows, attempt, requests, offset, data, sleeps,
                   dest, dest0, normVars, serveVars>>

\* main reporting a missing entry without leaving
FindFilesNoExit ==
    /\ bpc = "find"
    /\ bpc' = "parse"
    /\ UNCHANGED <<master_rows, acftref_rows, archive, attempt, requests, last_error,
                   offset, data, sleeps, dest, dest0, pending, exit_status, failure,
                   normVars, serveVars>>

\* main: find the two entries, or sys.exit(1)
FindFiles ==
    /\ bpc = "find"
    /\ IF FindEntry(archive, MASTER) = NULL \/ FindEntry(archive, ACFTREF) = NULL
       THEN Abort("missing_entry")
       ELSE /\ bpc' = "parse"
            /\ UNCHANGED <<exit_status, failure, pending>>
    /\ UNCHANGED <<master_rows, acftref_rows, archive, attempt, requests, last_error,
                   offset, data, sleeps, dest, dest0, normVars, serveVars>>

\* main: the two parse_csv calls; an entry without a header line raises
ParseEntries ==
    /\ bpc = "parse"
    /\ \/ /\ master_rows' \in SeqsUpTo(FileMasterRows, MaxMasterRows)
          /\ acftref_rows' \in SeqsUpTo(FileRefRows, MaxRefRows)
          /\ bpc' = "remove"
          /\ UNCHANGED <<exit_status, failure, pending>>
       \/ /\ Abort("parse")
          /\ UNCHANGED <<master_rows, acftref_rows>>
    /\ UNCHANGED <<archive, attempt, requests, last_error, offset, data, sleeps,
                   dest, dest0, normVars, serveVars>>


\* what no step of build_database changes
BuildFrame ==
    UNCHANGED <<master_rows, acftref_rows, archive, attempt, requests, last_error,
                offset, data, sleeps, dest0, normVars, serveVars>>

Running == UNCHANGED <<exit_status, failure>>

\* if os.path.exists(output_path): os.remove(output_path)
RemoveOld ==
    /\ bpc = "remove"
    /\ dest' = IF dest.exists THEN NoFile ELSE dest
    /\ bpc' = "connect"
    /\ UNCHANGED pending /\ Running /\ BuildFrame

\* sqlite3.connect(output_path) creates the file when there is none
Connect ==
    /\ bpc = "connect"
    /\ dest' = IF dest.exists THEN dest ELSE EmptyFile
    /\ bpc' = "create_master"
    /\ UNCHANGED pending /\ Running /\ BuildFrame

\* a CREATE TABLE outside a transaction is committed as it is executed
CreateTable(name, next) ==
    /\ dest' = [dest EXCEPT !.tables = @ \cup {name}]
    /\ bpc' = next
    /\ UNCHANGED pending /\ Running /\ BuildFrame

CreateMaster   == bpc = "create_master" /\ CreateTable("master", "create_acftref")
CreateAcftref  == bpc = "create_acftref" /\ CreateTable("acftref", "create_metadata")
CreateMetadata == bpc = "create_metadata" /\ CreateTable("metadata", "insert_acftref")

\* an INSERT opens a transaction: the rows stay in the connection until commit;
\* the statement may fail (sqlite3.Error), which nothing catches
InsertAcftref ==
    /\ bpc = "insert_acftref"
    /\ \/ /\ pending' = [pending EXCEPT
                            !.acftref = InsertOrIgnore(<<>>, acftref_data(acftref_rows), "code")]
          /\ bpc' = "insert_master"
          /\ Running
       \/ Abort("insert_acftref")
    /\ UNCHANGED dest /\ BuildFrame

InsertMaster ==
    /\ bpc = "insert_master"
    /\ \/ /\ pending' = [pending EXCEPT
                            !.master = InsertOrIgnore(<<>>, master_data(master_rows), "n_number")]
          /\ bpc' = "insert_metadata"
          /\ Running
       \/ Abort("insert_master")
    /\ UNCHANGED dest /\ BuildFrame

InsertMetadata ==
    /\ bpc = "insert_metadata"
    /\ \/ /\ pending' = [pending EXCEPT
                            !.metadata = <<[key |-> "last_updated", value |-> "t1"]>>]
          /\ bpc' = "create_index"
          /\ Running
       \/ Abort("insert_metadata")
    /\ UNCHANGED dest /\ BuildFrame

\* CREATE INDEX inside the open transaction
CreateIndex ==
    /\ bpc = "create_index"
    /\ pending' = [pending EXCEPT !.index = TRUE]
    /\ bpc' = "commit"
    /\ UNCHANGED dest /\ Running /\ BuildFrame

\* conn.commit()
Commit ==
    /\ bpc = "commit"
    /\ dest' = [dest EXCEPT !.acftref = pending.acftref, !.master = pending.master,
                            !.metadata = pending.metadata, !.index = pending.index]
    /\ pending' = NoPending
    /\ bpc' = "close"
    /\ Running /\ BuildFrame

\* conn.close(), the size report, and main's "Done!"
CloseAndReport ==
    /\ bpc = "close"
    /\ bpc' = "done"
    /\ exit_status' = 0
    /\ UNCHANGED <<dest, pending, failure>> /\ BuildFrame

-----------------------------------------------------------------------------
(* Specifications *)

IdleNorm ==
    /\ tail = <<>> /\ once = <<>> /\ twice = <<>> /\ npc = "off"

IdleServe ==
    /\ store = NoFile /\ spc = "off" /\ request = NoRequest
    /\ response = NoResponse /\ lookups = 0

IdleBuild ==
    /\ master_rows = <<>> /\ acftref_rows = <<>> /\ archive = <<>> /\ bpc = "off"
    /\ attempt = 1 /\ requests = 0 /\ last_error = "none" /\ offset = 0 /\ data = 0
    /\ sleeps = <<>> /\ dest = NoFile /\ dest0 = NoFile /\ pending = NoPending
    /\ exit_status = -1 /\ failure = "none"

\* normalize_tail on every string of at most MaxLen characters
InitNorm ==
    /\ tail \in StringsUpTo(MaxLen)
    /\ once = <<>> /\ twice = <<>> /\ npc = "start"
    /\ IdleServe /\ IdleBuild

NextNorm == Normalize \/ NormalizeAgain

SpecNorm == InitNorm /\ [][NextNorm]_vars

\* the serving process over every store the build makes of the sample rows
InitServe ==
    /\ store \in {BuiltStore(mr, ar, "t0") : mr \in MasterRowSeqs, ar \in RefRowSeqs}
    /\ spc = "idle" /\ request = NoRequest /\ response = NoResponse /\ lookups = 0
    /\ IdleNorm /\ IdleBuild

NextServe == GetAircraft \/ BulkLookup \/ Health \/ Stats \/ Respond

SpecServe == InitServe /\ [][NextServe]_vars

\* one run of main, with or without a store left by an earlier run
InitBuild ==
    /\ dest0 \in {NoFile, OldStore}
    /\ dest = dest0
    /\ master_rows = <<>> /\ acftref_rows = <<>> /\ archive = <<>> /\ bpc = "request"
    /\ attempt = 1 /\ requests = 0 /\ last_error = "none" /\ offset = 0 /\ data = 0
    /\ sleeps = <<>> /\ pending = NoPending /\ exit_status = -1 /\ failure = "none"
    /\ IdleNorm /\ IdleServe

NextBuild ==
    \/ GetResponds \/ GetFails \/ ReceiveChunk \/ TransferFails \/ TransferEnds
    \/ FindFiles \/ ParseEntries
    \/ RemoveOld \/ Connect \/ CreateMaster \/ CreateAcftref \/ CreateMetadata
    \/ InsertAcftref \/ InsertMaster \/ InsertMetadata \/ CreateIndex \/ Commit
    \/ CloseAndReport

SpecBuild == InitBuild /\ [][NextBuild]_vars

\* the run is one sequential process: while it has a next statement it takes it
FairSpecBuild == SpecBuild /\ WF_vars(NextBuild)


-----------------------------------------------------------------------------
(* Properties of normalize_tail *)

\* C1: normalization is idempotent: normalizing a normalized string changes
\* nothing, whatever the input (a repeated prefix letter, a separator before
\* the prefix).
C1_NormalizeIdempotent == npc = "twice" => twice = once

-----------------------------------------------------------------------------
(* Properties of the serving process *)

Stored(db, key) == \E i \in 1..Len(db.master) : db.master[i].n_number = key

\* the canonical key form of the data model: letters and digits only
IsCanonical(key) ==
    /\ key # <<>>
    /\ \A i \in 1..Len(key) :
          key[i] \in Digits \/ \E j \in 1..Len(UpperLetters) : UpperLetters[j] = key[i]

ItemKind(item) ==
    IF item.error = NULL THEN "found"
    ELSE IF item.error = Val("Invalid tail number") THEN "invalid"
    ELSE "not_found"

\* the outcome the bulk contract gives a raw identifier
ContractKind(db, t) ==
    IF Stored(db, normalize_tail(t)) THEN "found"
    ELSE IF ~ IsCanonical(normalize_tail(t)) THEN "invalid"
    ELSE "not_found"

BulkAnswered == spc = "responded" /\ request.op = "bulk"
SingleAnswered == spc = "responded" /\ request.op = "single"

\* C2: a bulk request of at most 50 identifiers gets one outcome per input, in
\* input order: a populated result for a stored record, "invalid identifier"
\* for an input that is no valid identifier, "not found" otherwise; found
\* counts the populated results.
C2_BulkOutcomes ==
    (BulkAnswered /\ Len(request.arg) <= 50) =>
        /\ response.status = 200
        /\ Len(response.body.results) = Len(request.arg)
        /\ \A i \in 1..Len(request.arg) :
              ItemKind(response.body.results[i]) = ContractKind(store, request.arg[i])
        /\ response.body.found =
              Cardinality({i \in 1..Len(request.arg) :
                              ItemKind(response.body.results[i]) = "found"})

\* the bulk item that says what a lookup of the identifier alone says
SameAsAlone(item, alone) ==
    CASE alone.status = 200 -> item = BulkFound(alone.body)
      [] alone.status = 400 -> ItemKind(item) = "invalid"
      [] alone.status = 404 -> ItemKind(item) = "not_found"
      [] OTHER -> item.error # NULL

\* C3: in a bulk lookup no item's failure aborts the call or changes a
\* sibling's outcome: the call completes with an outcome for every item, each
\* the outcome that item has when looked up alone.
C3_BulkItemsIndependent ==
    (BulkAnswered /\ Len(request.arg) <= 50) =>
        /\ response.status = 200
        /\ Len(response.body.results) = Len(request.arg)
        /\ \A i \in 1..Len(request.arg) :
              SameAsAlone(response.body.results[i], get_aircraft(store, request.arg[i]))

\* the stored registration row with the key, and its reference row if any
MasterRow(db, key) ==
    db.master[CHOOSE i \in 1..Len(db.master) : db.master[i].n_number = key]

HasReference(db, key) ==
    /\ Stored(db, key)
    /\ \E j \in 1..Len(db.acftref) : db.acftref[j].code = MasterRow(db, key).mfr_mdl_code

ReferenceRow(db, key) ==
    db.acftref[CHOOSE j \in 1..Len(db.acftref) :
                    db.acftref[j].code = MasterRow(db, key).mfr_mdl_code]

\* a count read from text that is empty or a decimal number
CountOf(text) == IF text = <<>> THEN NULL ELSE Val(DecimalValue(text))

IsNumber(text) == text # <<>> /\ \A i \in 1..Len(text) : text[i] \in Digits

\* C5 as stated: with a matching reference record, the registration record's
\* own engine and seat counts are reported whenever present, the reference
\* record's only when the registration record has none.
C5_RegistrationValueWins ==
    (SingleAnswered /\ response.status = 200
        /\ HasReference(store, normalize_tail(request.arg))) =>
        LET m == MasterRow(store, normalize_tail(request.arg))
            a == ReferenceRow(store, normalize_tail(request.arg))
        IN  /\ IsNumber(m.no_eng) => response.body.num_engines = CountOf(m.no_eng)
            /\ IsNumber(m.no_seats) => response.body.num_seats = CountOf(m.no_seats)
            /\ m.no_eng = <<>> => response.body.num_engines = CountOf(a.no_eng)
            /\ m.no_seats = <<>> => response.body.num_seats = CountOf(a.no_seats)

\* text that int() reads or that is skipped as empty
Readable(text) == text = <<>> \/ IsNumber(text)

\* C5, amended: the engine and seat counts are read from the matching
\* reference record when there is one, whatever the registration record
\* holds: the result reports the reference record's number, or none where its
\* text is empty, and the lookup raises where that text is not a number; the
\* registration record's own counts are read only when no reference record
\* matches.
C5_ReferenceValueWins ==
    (SingleAnswered /\ Stored(store, normalize_tail(request.arg))) =>
        LET key == normalize_tail(request.arg)
            m == MasterRow(store, key)
            eng == IF HasReference(store, key) THEN ReferenceRow(store, key).no_eng
                   ELSE m.no_eng
            seats == IF HasReference(store, key) THEN ReferenceRow(store, key).no_seats
                     ELSE m.no_seats
        IN  IF Readable(eng) /\ Readable(seats) /\ Readable(m.year_mfr)
            THEN /\ response.status = 200
                 /\ response.body.num_engines = CountOf(eng)
                 /\ response.body.num_seats = CountOf(seats)
            ELSE response.status = 500

\* a result reports no engine count, taken from the empty text of the matching
\* reference record, for a registration record that has a count of its own
C5_Witness ==
    /\ SingleAnswered /\ response.status = 200
    /\ HasReference(store, normalize_tail(request.arg))
    /\ IsNumber(MasterRow(store, normalize_tail(request.arg)).no_eng)
    /\ ReferenceRow(store, normalize_tail(request.arg)).no_eng = <<>>
    /\ response.body.num_engines = NULL

\* the count the coercion contract gives a stored text: absent for empty or
\* non-numeric text, the number otherwise
ContractCount(v) ==
    IF v = NULL \/ ~ IsNumber(v[1]) THEN NULL ELSE Val(DecimalValue(v[1]))

\* C6: numeric coercion never raises: a lookup of a stored record returns a
\* result whose engine count, seat count and year are absent for "" and for
\* non-numeric text, and the number (0 for "0") otherwise.
C6_CoercionNeverRaises ==
    (SingleAnswered /\ Stored(store, normalize_tail(request.arg))) =>
        LET row == JoinedRows(store, normalize_tail(request.arg))[1]
        IN  /\ response.status = 200
            /\ response.body.num_engines = ContractCount(row.no_eng)
            /\ response.body.num_seats = ContractCount(row.no_seats)
            /\ response.body.year_mfr = ContractCount(row.year_mfr)

\* C9: a bulk request of more than 50 identifiers is rejected whole: no
\* lookup is executed and no per-item outcome is returned.
C9_OversizeRejected ==
    (BulkAnswered /\ Len(request.arg) > 50) =>
        /\ response.status \in {400, 422}
        /\ lookups = 0
        /\ response.body \in {"validation error", "Maximum 50 tail numbers per request"}

\* a request of 51 identifiers that name a stored record has been rejected
C9_Witness ==
    /\ BulkAnswered /\ Len(request.arg) = 51
    /\ Stored(store, normalize_tail(request.arg[1]))
    /\ response.status = 422 /\ lookups = 0

\* C10: a stored registration record whose reference code matches no reference
\* record is found, with manufacturer and model "Unknown"; not-found is
\* returned only when no registration record has the key.
C10_LeftJoinComplete ==
    SingleAnswered =>
        LET key == normalize_tail(request.arg)
        IN  /\ (Stored(store, key) /\ ~ HasReference(store, key)) =>
                  /\ response.status = 200
                  /\ response.body.manufacturer = "Unknown"
                  /\ response.body.model = "Unknown"
            /\ response.status = 404 => ~ Stored(store, key)


-----------------------------------------------------------------------------
(* Properties of the build pipeline *)

\* the store this run commits when it completes
NewStore == BuiltStore(master_rows, acftref_rows, "t1")

\* what a process that opens output_path now finds there
Observed(file) ==
    IF ~ file.exists THEN [kind |-> "missing"]
    ELSE [kind |-> "opened", stats |-> get_stats(file), aircraft |-> lookup(file, K172SP)]

\* C4: during a run over an existing store, and after a run that failed at an
\* insertion, output_path holds the complete previous store or the complete
\* new one, and a reader sees nothing else.
C4_DestAlwaysComplete ==
    dest0.exists =>
        /\ dest \in {dest0, NewStore}
        /\ Observed(dest) \in {Observed(dest0), Observed(NewStore)}

InDownload == bpc \in {"request", "transfer"}

\* what holds of the download loop at every moment (HTTP clause aside)
FetchSafe ==
    \* at most 3 attempts, one request each, none after a success
    /\ requests <= 3
    /\ attempt \in 1..3
    /\ requests = IF bpc = "request" THEN attempt - 1 ELSE attempt
    \* after failed attempt k the wait is k * 10 seconds, for k = 1 and 2
    /\ sleeps = [k \in 1..(attempt - 1) |-> k * 10]
    \* every attempt transfers the archive from its start
    /\ bpc = "transfer" => data = offset
    /\ (~ InDownload /\ failure \notin {"download", "bad_zip"}) => data = ArchiveChunks
    \* a failure of the third attempt is fatal
    /\ failure = "download" =>
          (bpc = "aborted" /\ exit_status = 1 /\ requests = 3 /\ last_error # "none")
    \* a further attempt is made only after a failed one
    /\ (InDownload /\ attempt > 1) => last_error # "none"

\* C7 as stated: FetchSafe, and an HTTP error status is a fatal error.
C7_HttpStatusFatal ==
    /\ FetchSafe
    /\ last_error = "http_status" => (bpc = "aborted" /\ exit_status = 1)

\* C7, amended: at most 3 attempts, each a full transfer, a wait of k * 10
\* seconds after failed attempt k < 3, no attempt after a success, a fatal
\* error after the third failure, and the fetch always ends; an HTTP error
\* status is retried like any other request failure and is fatal only on the
\* third attempt.
C7_BoundedRetries ==
    /\ [](FetchSafe /\ (last_error = "http_status" =>
                          IF failure = "download" THEN attempt = 3 /\ exit_status = 1
                          ELSE attempt >= 2 /\ requests >= 1))
    /\ <>(~ InDownload)

\* three attempts failed, the third on an HTTP error status, after waits of 10
\* and 20 seconds
C7_Witness ==
    /\ bpc = "aborted" /\ failure = "download" /\ last_error = "http_status"
    /\ requests = 3 /\ sleeps = <<10, 20>> /\ exit_status = 1

EntryMissing == FindEntry(archive, MASTER) = NULL \/ FindEntry(archive, ACFTREF) = NULL

\* C8: a run that fails before the build (retries exhausted, or an entry
\* missing from the archive, which is not retried) ends with a non-zero exit
\* status and leaves output_path as the run found it.
C8_EarlyAbortLeavesStore ==
    [][ /\ (bpc' = "aborted" /\ failure' \in {"download", "missing_entry"}) =>
              (exit_status' # 0 /\ dest' = dest0 /\ dest0' = dest0)
        /\ bpc \in {"request", "transfer", "find"} => (dest = dest0 /\ dest' = dest)
        /\ (bpc = "find" /\ EntryMissing) =>
              (bpc' = "aborted" /\ failure' = "missing_entry"
                 /\ requests' = requests /\ sleeps' = sleeps) ]_vars

\* a run over an existing store has ended on a missing entry
C8_Witness ==
    /\ bpc = "aborted" /\ failure = "missing_entry" /\ EntryMissing
    /\ dest0.exists /\ dest = dest0 /\ exit_status = 1


====
